---- MODULE Spec2Model ----
(***************************************************************************)
(* Model of the "Our People" family engine (src/src/engine/FamilyEngine.ts)*)
(* together with the storage collaborator it mirrors its caches to         *)
(* (IndexedDBAdapter) and the provider that boots it (useEngine.tsx).      *)
(*                                                                         *)
(* Identifiers: the code draws ids from crypto.randomUUID(); here a fresh  *)
(* id is the next unused natural number.  0 stands for null / undefined.   *)
(* Storage reads (getAll) return records in key order, i.e. id order.      *)
(***************************************************************************)
EXTENDS Integers, Sequences, FiniteSets, TLC

\* ------------------------------------------------------------------------
\* Bounds
\* ------------------------------------------------------------------------
MaxPeople == 2
MaxRels == 2
MaxCalls == 2
MaxGendered == 1
MaxPathPeople == 5
MaxSearchPeople == 4

PersonIds == 1..MaxPeople
RelIds == 1..MaxRels
Slots == 1..MaxCalls
NoId == 0

\* ------------------------------------------------------------------------
\* Types of the data model  (src/src/types/index.ts)
\* ------------------------------------------------------------------------
RelationshipTypes == {"parent", "child", "sibling", "spouse", "friend"}
Genders == {"none", "female", "male"}
\* the types the modelled callers enter: the inverse pair and one self-inverse type
InputTypes == {"parent", "child", "sibling"}
\* the genders the modelled callers enter in add / update forms
InputGenders == {"none", "female"}

EmptyMap == [k \in {} |-> k]

Put(f, k, v) == [x \in (DOMAIN f) \cup {k} |-> IF x = k THEN v ELSE f[x]]
Drop(f, k) == [x \in (DOMAIN f) \ {k} |-> f[x]]

NoPerson == [gender |-> "none", isUser |-> FALSE]
NoRel == [personAId |-> NoId, personBId |-> NoId, type |-> "none"]

\* ------------------------------------------------------------------------
\* State
\* ------------------------------------------------------------------------
VARIABLES
    peopleCache,         \* FamilyEngine.peopleCache: id -> Person
    relationshipsCache,  \* FamilyEngine.relationshipsCache: id -> Relationship
    adjacencyList,       \* FamilyEngine.adjacencyList: id -> Seq of entries
    perspectiveId,       \* FamilyEngine.perspectiveId (NoId = null)
    dbPeople,            \* IndexedDB object store 'people'
    dbRelationships,     \* IndexedDB object store 'relationships'
    nextPersonId,        \* next fresh person id (crypto.randomUUID)
    nextRelId,           \* next fresh relationship id
    calls,               \* the async engine calls in flight, per slot
    ret,                 \* outcome of a call that has just finished
    query                \* a read (path search, explanation) and what it returned

vars == <<peopleCache, relationshipsCache, adjacencyList, perspectiveId,
          dbPeople, dbRelationships, nextPersonId, nextRelId, calls, ret, query>>

mem == <<peopleCache, relationshipsCache, adjacencyList, perspectiveId>>
db == <<dbPeople, dbRelationships>>
ids == <<nextPersonId, nextRelId>>

Snapshot == [people |-> peopleCache, rels |-> relationshipsCache,
             adj |-> adjacencyList, persp |-> perspectiveId]
NoPre == [people |-> EmptyMap, rels |-> EmptyMap, adj |-> EmptyMap, persp |-> NoId]
NoData == [people |-> EmptyMap, relationships |-> EmptyMap]

Idle == [op |-> "idle", await |-> "none", pid |-> NoId, rid |-> NoId,
         person |-> NoPerson, rel |-> NoRel, idx |-> 0, data |-> NoData,
         pre |-> NoPre]

\* ret is the outcome of a call that has just finished, until its awaiting
\* caller has taken it: the call (its arguments and the memory it started
\* from), how it settled ("ok" resolved, "error" rejected) and the person or
\* relationship it resolved with (id 0: void or undefined).
NoRet == [call |-> Idle, status |-> "none", id |-> NoId, rel |-> NoRel]
Returned(call, status, id, rel) == [call |-> call, status |-> status, id |-> id, rel |-> rel]
\* a call that returns before its first await
Sync(op, pid, rid, rel) == [Idle EXCEPT !.op = op, !.pid = pid, !.rid = rid, !.rel = rel,
                                       !.pre = Snapshot]

NoPath == [found |-> FALSE, personIds |-> <<>>, types |-> <<>>]
NoQuery == [fromId |-> NoId, toId |-> NoId, maxDepth |-> 0, done |-> FALSE, result |-> NoPath]

AllIdle == \A s \in Slots : calls[s].op = "idle"
\* nothing in flight and no result waiting to be taken
Quiet == AllIdle /\ ret = NoRet
\* a new call takes the lowest free slot
FreeSlot(s) == /\ calls[s].op = "idle"
               /\ \A r \in Slots : r < s => calls[r].op # "idle"

\* ------------------------------------------------------------------------
\* Adjacency bookkeeping
\* ------------------------------------------------------------------------
\* a variant that labels both directions alike
getInverseType_Same(type) == type

getInverseType(type) ==
    CASE type = "parent" -> "child"
      [] type = "child" -> "parent"
      [] type = "sibling" -> "sibling"
      [] type = "spouse" -> "spouse"
      [] type = "friend" -> "friend"

Entry(p, t, r) == [personId |-> p, type |-> t, relationshipId |-> r]

AdjGet(adj, p) == IF p \in DOMAIN adj THEN adj[p] ELSE <<>>

\* rel is [personAId, personBId, type]; rid is its id
addToAdjacencyList(adj, rid, rel) ==
    LET a == rel.personAId
        b == rel.personBId
        ea == Entry(b, getInverseType(rel.type), rid)
        eb == Entry(a, rel.type, rid)
    IN  IF a = b
        THEN Put(adj, a, AdjGet(adj, a) \o <<ea, eb>>)
        ELSE Put(Put(adj, a, Append(AdjGet(adj, a), ea)), b, Append(AdjGet(adj, b), eb))

\* index of the first element satisfying Test, 0 when there is none
\* (Array.prototype.findIndex, 1-based)
FindIndex(list, Test(_)) ==
    IF \E i \in 1..Len(list) : Test(list[i])
    THEN CHOOSE i \in 1..Len(list) : Test(list[i]) /\ \A j \in 1..(i-1) : ~Test(list[j])
    ELSE 0

\* list.splice(i, 1)
Splice(list, i) == [j \in 1..(Len(list) - 1) |-> IF j < i THEN list[j] ELSE list[j + 1]]

RemoveFirst(list, Test(_)) ==
    LET i == FindIndex(list, Test) IN IF i = 0 THEN list ELSE Splice(list, i)

\* ------------------------------------------------------------------------
\* Initial state: a freshly constructed engine over an empty database,
\* initialized by the provider.
\* ------------------------------------------------------------------------
Init ==
    /\ peopleCache = EmptyMap
    /\ relationshipsCache = EmptyMap
    /\ adjacencyList = EmptyMap
    /\ perspectiveId = NoId
    /\ dbPeople = EmptyMap
    /\ dbRelationships = EmptyMap
    /\ nextPersonId = 1
    /\ nextRelId = 1
    /\ calls = [s \in Slots |-> Idle]
    /\ ret = NoRet
    /\ query = NoQuery

\* ------------------------------------------------------------------------
\* PERSPECTIVE
\* ------------------------------------------------------------------------
\* setPerspective is synchronous.  Its callers (usePerspective from the
\* people drop-down and handleAddPerson) pass the id of a listed person or null.
SetPerspective(p) ==
    /\ p \in (DOMAIN peopleCache) \cup {NoId}
    /\ perspectiveId' = p
    /\ UNCHANGED <<peopleCache, relationshipsCache, adjacencyList, db, ids, calls, ret, query>>

\* ------------------------------------------------------------------------
\* PERSON OPERATIONS
\* ------------------------------------------------------------------------
\* addPerson up to `await this.storage.savePerson(newPerson)`
\* bound on the inputs: at most MaxGendered cached people carry a gender
CanGender(p, g) ==
    \/ g = "none"
    \/ Cardinality({q \in (DOMAIN peopleCache) \ {p} : peopleCache[q].gender # "none"}) < MaxGendered

\* (the add form of the current UI never sets the legacy isUser flag)
AddPerson(s, g) ==
    /\ FreeSlot(s)
    /\ nextPersonId <= MaxPeople
    /\ CanGender(NoId, g)
    /\ calls' = [calls EXCEPT ![s] = [Idle EXCEPT !.op = "addPerson",
                    !.await = "savePerson", !.pid = nextPersonId,
                    !.person = [gender |-> g, isUser |-> FALSE], !.pre = Snapshot]]
    /\ nextPersonId' = nextPersonId + 1
    /\ UNCHANGED <<mem, db, nextRelId, ret, query>>

\* a variant that stores the person but never puts it in the cache
AddPersonCommit_CacheSkipped(s) ==
    /\ calls[s].op = "addPerson"
    /\ dbPeople' = Put(dbPeople, calls[s].pid, calls[s].person)
    /\ adjacencyList' = Put(adjacencyList, calls[s].pid, <<>>)
    /\ calls' = [calls EXCEPT ![s] = Idle]
    /\ ret = NoRet
    /\ ret' = Returned(calls[s], "ok", calls[s].pid, NoRel)
    /\ UNCHANGED <<peopleCache, relationshipsCache, perspectiveId, dbRelationships, ids, query>>

\* the write landed; the rest of addPerson runs
AddPersonCommit(s) ==
    /\ calls[s].op = "addPerson"
    /\ dbPeople' = Put(dbPeople, calls[s].pid, calls[s].person)
    /\ peopleCache' = Put(peopleCache, calls[s].pid, calls[s].person)
    /\ adjacencyList' = Put(adjacencyList, calls[s].pid, <<>>)
    /\ calls' = [calls EXCEPT ![s] = Idle]
    /\ ret = NoRet
    /\ ret' = Returned(calls[s], "ok", calls[s].pid, NoRel)
    /\ UNCHANGED <<relationshipsCache, perspectiveId, dbRelationships, ids, query>>

\* updatePerson up to `await this.storage.savePerson(updated)`; an unknown id
\* returns undefined at once.  The update modelled is a change of gender.
UpdatePerson(s, p, g) ==
    /\ FreeSlot(s)
    /\ IF p \notin DOMAIN peopleCache
       THEN /\ ret = NoRet
            /\ ret' = Returned(Sync("updatePerson", p, NoId, NoRel), "ok", NoId, NoRel)
            /\ UNCHANGED calls
       ELSE /\ CanGender(p, g)
            /\ calls' = [calls EXCEPT ![s] = [Idle EXCEPT !.op = "updatePerson",
                            !.await = "savePerson", !.pid = p,
                            !.person = [peopleCache[p] EXCEPT !.gender = g],
                            !.pre = Snapshot]]
            /\ UNCHANGED ret
    /\ UNCHANGED <<mem, db, ids, query>>

UpdatePersonCommit(s) ==
    /\ calls[s].op = "updatePerson"
    /\ dbPeople' = Put(dbPeople, calls[s].pid, calls[s].person)
    /\ peopleCache' = Put(peopleCache, calls[s].pid, calls[s].person)
    /\ calls' = [calls EXCEPT ![s] = Idle]
    /\ ret = NoRet
    /\ ret' = Returned(calls[s], "ok", calls[s].pid, NoRel)
    /\ UNCHANGED <<relationshipsCache, adjacencyList, perspectiveId, dbRelationships, ids, query>>

\* deletePerson up to its first await: the first storage.deleteRelationship of
\* the loop over the person's own adjacency list, or storage.deletePerson when
\* that list is empty.  idx is the loop position in the (live) list.
DeletePerson(s, p) ==
    /\ FreeSlot(s)
    /\ calls' = [calls EXCEPT ![s] = [Idle EXCEPT !.op = "deletePerson",
                    !.await = IF Len(AdjGet(adjacencyList, p)) > 0
                              THEN "deleteRelationship" ELSE "deletePerson",
                    !.pid = p, !.idx = 1, !.pre = Snapshot]]
    /\ UNCHANGED <<mem, db, ids, ret, query>>

\* one iteration of the loop: the relationship delete landed, the record is
\* dropped from the cache, and the call suspends on its next write
DeletePersonRelStep(s) ==
    /\ calls[s].op = "deletePerson"
    /\ calls[s].await = "deleteRelationship"
    /\ LET rels == AdjGet(adjacencyList, calls[s].pid)
           rid == rels[calls[s].idx].relationshipId
       IN  /\ dbRelationships' = Drop(dbRelationships, rid)
           /\ relationshipsCache' = Drop(relationshipsCache, rid)
           /\ calls' = [calls EXCEPT ![s].idx = calls[s].idx + 1,
                           ![s].await = IF calls[s].idx + 1 <= Len(rels)
                                        THEN "deleteRelationship" ELSE "deletePerson"]
    /\ UNCHANGED <<peopleCache, adjacencyList, perspectiveId, dbPeople, ids, ret, query>>

\* "Clean up reverse references": in every remaining list, findIndex + one splice
CleanReverse(adj, p) ==
    LET PointsTo(e) == e.personId = p
    IN  [q \in DOMAIN adj |-> RemoveFirst(adj[q], PointsTo)]

\* a variant that forgets "Clear perspective if deleted person was the perspective"
PerspectiveAfterDelete_Kept(persp, p) == persp

\* "Clear perspective if deleted person was the perspective"
PerspectiveAfterDelete(persp, p) == IF persp = p THEN NoId ELSE persp

\* storage.deletePerson landed; the synchronous tail of deletePerson runs
DeletePersonCommit(s) ==
    /\ calls[s].op = "deletePerson"
    /\ calls[s].await = "deletePerson"
    /\ LET p == calls[s].pid
       IN  /\ dbPeople' = Drop(dbPeople, p)
           /\ peopleCache' = Drop(peopleCache, p)
           /\ perspectiveId' = PerspectiveAfterDelete(perspectiveId, p)
           /\ adjacencyList' = CleanReverse(Drop(adjacencyList, p), p)
    /\ calls' = [calls EXCEPT ![s] = Idle]
    /\ ret = NoRet
    /\ ret' = Returned(calls[s], "ok", NoId, NoRel)
    /\ UNCHANGED <<relationshipsCache, dbRelationships, ids, query>>

\* ------------------------------------------------------------------------
\* RELATIONSHIP OPERATIONS
\* ------------------------------------------------------------------------
\* a variant that never finds a duplicate
FindDuplicate_Never(adj, a, b, type) == 0

\* the entry addRelationship's duplicate check finds in personA's list, 0 if none
FindDuplicate(adj, a, b, type) ==
    LET IsDup(e) == e.personId = b /\ e.type = type
    IN  FindIndex(AdjGet(adj, a), IsDup)

RelOrNone(rid) ==
    IF rid \in DOMAIN relationshipsCache THEN relationshipsCache[rid] ELSE NoRel

\* a variant that looks up personA only
UnknownPerson_OnlyA(people, a, b) == a \notin DOMAIN people

\* `if (!this.peopleCache.has(personAId) || !this.peopleCache.has(personBId))`
UnknownPerson(people, a, b) == a \notin DOMAIN people \/ b \notin DOMAIN people

\* a variant without the duplicate check
AddRelationship_Unchecked(s, a, b, type) ==
    LET req == [personAId |-> a, personBId |-> b, type |-> type]
    IN
    /\ FreeSlot(s)
    /\ IF UnknownPerson(peopleCache, a, b)
       THEN /\ ret = NoRet
            /\ ret' = Returned(Sync("addRelationship", NoId, NoId, req), "ok", NoId, NoRel)
            /\ UNCHANGED <<calls, nextRelId>>
       ELSE /\ nextRelId <= MaxRels
            /\ calls' = [calls EXCEPT ![s] = [Idle EXCEPT !.op = "addRelationship",
                            !.await = "saveRelationship", !.rid = nextRelId,
                            !.rel = req, !.pre = Snapshot]]
            /\ nextRelId' = nextRelId + 1
            /\ UNCHANGED ret
    /\ UNCHANGED <<mem, db, nextPersonId, query>>

\* (callers pick personB among the other people: RelationshipForm.otherPeople)
\* addRelationship up to `await this.storage.saveRelationship(relationship)`;
\* the unknown-person and duplicate branches return without suspending
AddRelationship(s, a, b, type) ==
    LET req == [personAId |-> a, personBId |-> b, type |-> type]
        dupIdx == FindDuplicate(adjacencyList, a, b, type)
    IN
    /\ FreeSlot(s)
    /\ IF UnknownPerson(peopleCache, a, b)
       THEN /\ ret = NoRet
            /\ ret' = Returned(Sync("addRelationship", NoId, NoId, req), "ok", NoId, NoRel)
            /\ UNCHANGED <<calls, nextRelId>>
       ELSE IF dupIdx # 0
       THEN LET dup == AdjGet(adjacencyList, a)[dupIdx]
                found == dup.relationshipId \in DOMAIN relationshipsCache
            IN  /\ ret = NoRet
                /\ ret' = Returned(Sync("addRelationship", NoId, NoId, req), "ok",
                                   IF found THEN dup.relationshipId ELSE NoId,
                                   RelOrNone(dup.relationshipId))
                /\ UNCHANGED <<calls, nextRelId>>
       ELSE /\ nextRelId <= MaxRels
            /\ calls' = [calls EXCEPT ![s] = [Idle EXCEPT !.op = "addRelationship",
                            !.await = "saveRelationship", !.rid = nextRelId,
                            !.rel = req, !.pre = Snapshot]]
            /\ nextRelId' = nextRelId + 1
            /\ UNCHANGED ret
    /\ UNCHANGED <<mem, db, nextPersonId, query>>

\* a variant that looks the two people up again after the write and applies
\* nothing when one of them is gone
AddRelationshipCommit_Rechecked(s) ==
    /\ calls[s].op = "addRelationship"
    /\ IF UnknownPerson(peopleCache, calls[s].rel.personAId, calls[s].rel.personBId)
       THEN UNCHANGED <<dbRelationships, relationshipsCache, adjacencyList>>
       ELSE /\ dbRelationships' = Put(dbRelationships, calls[s].rid, calls[s].rel)
            /\ relationshipsCache' = Put(relationshipsCache, calls[s].rid, calls[s].rel)
            /\ adjacencyList' = addToAdjacencyList(adjacencyList, calls[s].rid, calls[s].rel)
    /\ calls' = [calls EXCEPT ![s] = Idle]
    /\ ret = NoRet
    /\ ret' = Returned(calls[s], "ok", calls[s].rid, calls[s].rel)
    /\ UNCHANGED <<peopleCache, perspectiveId, dbPeople, ids, query>>

\* the write landed: `relationshipsCache.set`, `addToAdjacencyList`, return
AddRelationshipCommit(s) ==
    /\ calls[s].op = "addRelationship"
    /\ dbRelationships' = Put(dbRelationships, calls[s].rid, calls[s].rel)
    /\ relationshipsCache' = Put(relationshipsCache, calls[s].rid, calls[s].rel)
    /\ adjacencyList' = addToAdjacencyList(adjacencyList, calls[s].rid, calls[s].rel)
    /\ calls' = [calls EXCEPT ![s] = Idle]
    /\ ret = NoRet
    /\ ret' = Returned(calls[s], "ok", calls[s].rid, calls[s].rel)
    /\ UNCHANGED <<peopleCache, perspectiveId, dbPeople, ids, query>>

\* deleteRelationship up to `await this.storage.deleteRelationship(id)`;
\* the record read before the await is kept in the call
DeleteRelationship(s, rid) ==
    /\ FreeSlot(s)
    /\ IF rid \notin DOMAIN relationshipsCache
       THEN /\ ret = NoRet
            /\ ret' = Returned(Sync("deleteRelationship", NoId, rid, NoRel), "ok", NoId, NoRel)
            /\ UNCHANGED calls
       ELSE /\ calls' = [calls EXCEPT ![s] = [Idle EXCEPT !.op = "deleteRelationship",
                            !.await = "deleteRelationship", !.rid = rid,
                            !.rel = relationshipsCache[rid], !.pre = Snapshot]]
            /\ UNCHANGED ret
    /\ UNCHANGED <<mem, db, ids, query>>

\* a variant that leaves the lists alone
RemoveFromList_Kept(adj, p, rid) == adj

\* listA and listB each lose their first entry carrying the relationship id
RemoveFromList(adj, p, rid) ==
    LET HasId(e) == e.relationshipId = rid
    IN  IF p \in DOMAIN adj THEN [adj EXCEPT ![p] = RemoveFirst(adj[p], HasId)] ELSE adj

DeleteRelationshipCommit(s) ==
    /\ calls[s].op = "deleteRelationship"
    /\ dbRelationships' = Drop(dbRelationships, calls[s].rid)
    /\ relationshipsCache' = Drop(relationshipsCache, calls[s].rid)
    /\ adjacencyList' = RemoveFromList(
                            RemoveFromList(adjacencyList, calls[s].rel.personAId, calls[s].rid),
                            calls[s].rel.personBId, calls[s].rid)
    /\ calls' = [calls EXCEPT ![s] = Idle]
    /\ ret = NoRet
    /\ ret' = Returned(calls[s], "ok", NoId, NoRel)
    /\ UNCHANGED <<peopleCache, perspectiveId, dbPeople, ids, query>>

\* ------------------------------------------------------------------------
\* INITIALIZATION, IMPORT, CLEAR
\* ------------------------------------------------------------------------
MinOf(S) == CHOOSE x \in S : \A y \in S : x <= y

\* the second loop of initialize(): relationships in the order getAll returns them
RECURSIVE LoadRelationships(_, _, _)
LoadRelationships(adj, rels, todo) ==
    IF todo = {} THEN adj
    ELSE LET r == MinOf(todo)
         IN  LoadRelationships(addToAdjacencyList(adj, r, rels[r]), rels, todo \ {r})

\* the adjacency map initialize() builds from the loaded records
InitialAdjacency(people, rels) ==
    LoadRelationships([p \in DOMAIN people |-> <<>>], rels, DOMAIN rels)

\* people.find(p => p.isUser): the first flagged person, NoId when there is none
LegacyUser(people) ==
    LET flagged == {p \in DOMAIN people : people[p].isUser}
    IN  IF flagged = {} THEN NoId ELSE MinOf(flagged)

\* the perspective initialize() leaves, given the one it found
InitialPerspective(people, old) ==
    IF LegacyUser(people) # NoId THEN LegacyUser(people) ELSE old

\* the datasets a user imports (backup files, share links)
ImportPayloads ==
    { [people |-> EmptyMap, relationships |-> EmptyMap],
      [people |-> (1 :> [gender |-> "none", isUser |-> TRUE]),
       relationships |-> EmptyMap],
      [people |-> (1 :> [gender |-> "none", isUser |-> FALSE])
                  @@ (2 :> [gender |-> "none", isUser |-> FALSE]),
       relationships |-> (1 :> [personAId |-> 1, personBId |-> 2, type |-> "parent"])] }

MaxOf(S, floor) == IF S = {} THEN floor ELSE CHOOSE x \in S : \A y \in S : x >= y

\* importData up to `await this.storage.importData(data)`
ImportData(s, data) ==
    /\ FreeSlot(s)
    /\ calls' = [calls EXCEPT ![s] = [Idle EXCEPT !.op = "importData",
                    !.await = "importData", !.data = data, !.pre = Snapshot]]
    /\ UNCHANGED <<mem, db, ids, ret, query>>

\* the import transaction committed (clear both stores, put every record);
\* importData goes on to initialize(), which suspends on its two getAll reads.
\* Ids handed out later stay distinct from the imported ones.
ImportDataWrite(s) ==
    /\ calls[s].op = "importData"
    /\ calls[s].await = "importData"
    /\ dbPeople' = calls[s].data.people
    /\ dbRelationships' = calls[s].data.relationships
    /\ nextPersonId' = MaxOf({nextPersonId} \cup {p + 1 : p \in DOMAIN calls[s].data.people}, 1)
    /\ nextRelId' = MaxOf({nextRelId} \cup {r + 1 : r \in DOMAIN calls[s].data.relationships}, 1)
    /\ calls' = [calls EXCEPT ![s].await = "getAll"]
    /\ UNCHANGED <<mem, ret, query>>

\* a variant that loads without clearing first: the old entries stay
InitializeLoad_Merging(s) ==
    /\ calls[s].op = "importData"
    /\ calls[s].await = "getAll"
    /\ peopleCache' = dbPeople @@ peopleCache
    /\ relationshipsCache' = dbRelationships @@ relationshipsCache
    /\ adjacencyList' = LoadRelationships(
                            [p \in (DOMAIN dbPeople) \cup (DOMAIN adjacencyList) |->
                                IF p \in DOMAIN dbPeople THEN <<>> ELSE adjacencyList[p]],
                            dbRelationships, DOMAIN dbRelationships)
    /\ perspectiveId' = InitialPerspective(dbPeople, perspectiveId)
    /\ calls' = [calls EXCEPT ![s] = Idle]
    /\ ret = NoRet
    /\ ret' = Returned(calls[s], "ok", NoId, NoRel)
    /\ UNCHANGED <<db, ids, query>>

\* the reads resolved; the synchronous body of initialize() rebuilds the caches
InitializeLoad(s) ==
    /\ calls[s].op = "importData"
    /\ calls[s].await = "getAll"
    /\ peopleCache' = dbPeople
    /\ relationshipsCache' = dbRelationships
    /\ adjacencyList' = InitialAdjacency(dbPeople, dbRelationships)
    /\ perspectiveId' = InitialPerspective(dbPeople, perspectiveId)
    /\ calls' = [calls EXCEPT ![s] = Idle]
    /\ ret = NoRet
    /\ ret' = Returned(calls[s], "ok", NoId, NoRel)
    /\ UNCHANGED <<db, ids, query>>

\* clearAll up to `await this.storage.clearAll()`
ClearAll(s) ==
    /\ FreeSlot(s)
    /\ calls' = [calls EXCEPT ![s] = [Idle EXCEPT !.op = "clearAll",
                    !.await = "clearAll", !.pre = Snapshot]]
    /\ UNCHANGED <<mem, db, ids, ret, query>>

ClearAllCommit(s) ==
    /\ calls[s].op = "clearAll"
    /\ dbPeople' = EmptyMap
    /\ dbRelationships' = EmptyMap
    /\ peopleCache' = EmptyMap
    /\ relationshipsCache' = EmptyMap
    /\ adjacencyList' = EmptyMap
    /\ perspectiveId' = NoId
    /\ calls' = [calls EXCEPT ![s] = Idle]
    /\ ret = NoRet
    /\ ret' = Returned(calls[s], "ok", NoId, NoRel)
    /\ UNCHANGED <<ids, query>>

\* The provider's initEngine on page load: a new FamilyEngine (empty caches,
\* null perspective) is initialized from the database, then the perspective
\* saved in localStorage is restored if that person was loaded.  The new
\* engine is not published before this has finished.
InitEngine(saved) ==
    /\ AllIdle
    /\ peopleCache' = dbPeople
    /\ relationshipsCache' = dbRelationships
    /\ adjacencyList' = InitialAdjacency(dbPeople, dbRelationships)
    /\ perspectiveId' = IF saved # NoId /\ saved \in DOMAIN dbPeople
                        THEN saved
                        ELSE InitialPerspective(dbPeople, NoId)
    /\ UNCHANGED <<db, ids, calls, ret, query>>

\* ------------------------------------------------------------------------
\* STORAGE FAILURE
\* ------------------------------------------------------------------------
\* The write a call is suspended on rejects.  No engine method catches, so the
\* call ends there and the rejection reaches the caller; a rejected IndexedDB
\* request or transaction leaves the database as it was.  The id generated
\* for a record that was never stored was seen by nobody and is handed out again.
StorageFail(s) ==
    /\ calls[s].op # "idle"
    /\ calls[s].await # "getAll"
    /\ calls' = [calls EXCEPT ![s] = Idle]
    /\ ret = NoRet
    /\ ret' = Returned(calls[s], "error", NoId, NoRel)
    /\ nextPersonId' = IF calls[s].op = "addPerson" /\ calls[s].pid = nextPersonId - 1
                       THEN nextPersonId - 1 ELSE nextPersonId
    /\ nextRelId' = IF calls[s].op = "addRelationship" /\ calls[s].rid = nextRelId - 1
                    THEN nextRelId - 1 ELSE nextRelId
    /\ UNCHANGED <<mem, db, query>>

\* The caller that awaited the call takes its outcome (the hooks of
\* useEngine.tsx: `await engine.<op>(...); refreshPeople()`).
CallerResumes ==
    /\ ret # NoRet
    /\ ret' = NoRet
    /\ UNCHANGED <<mem, db, ids, calls, query>>

\* ------------------------------------------------------------------------
\* PATH FINDING
\* ------------------------------------------------------------------------
DefaultMaxDepth == 4
ReferenceMaxDepth == 2

\* a variant without the friend rule
IsTerminalHop_Never(edge, toId) == FALSE

\* "Friends are terminal": the edge is not followed unless it reaches toId
IsTerminalHop(edge, toId) == edge.type = "friend" /\ edge.personId # toId

\* a variant that is off by one
AtDepthLimit_OneMore(current, maxDepth) == Len(current.types) > maxDepth

\* `if (current.types.length >= maxDepth) continue`
AtDepthLimit(current, maxDepth) == Len(current.types) >= maxDepth

\* a variant that puts the new entry at the front (depth-first order)
Enqueue_Front(queue, item) == <<item>> \o queue

\* queue.push
Enqueue(queue, item) == Append(queue, item)

\* the `for (const edge of edges)` loop of one dequeued node, from edge i on:
\* either the target is reached (found) or queue and visited are extended
RECURSIVE ScanEdges(_, _, _, _, _, _)
ScanEdges(edges, i, current, toId, queue, visited) ==
    IF i > Len(edges)
    THEN [found |-> FALSE, result |-> NoPath, queue |-> queue, visited |-> visited]
    ELSE LET edge == edges[i]
             newPath == Append(current.path, edge.personId)
             newTypes == Append(current.types, edge.type)
         IN  IF edge.personId \in visited \/ IsTerminalHop(edge, toId)
             THEN ScanEdges(edges, i + 1, current, toId, queue, visited)
             ELSE IF edge.personId = toId
             THEN [found |-> TRUE,
                   result |-> [found |-> TRUE, personIds |-> newPath, types |-> newTypes],
                   queue |-> queue, visited |-> visited]
             ELSE ScanEdges(edges, i + 1, current, toId,
                            Enqueue(queue, [personId |-> edge.personId, path |-> newPath,
                                            types |-> newTypes]),
                            visited \cup {edge.personId})

\* the `while (queue.length > 0)` loop
RECURSIVE SearchLoop(_, _, _, _, _)
SearchLoop(adj, toId, maxDepth, queue, visited) ==
    IF queue = <<>> THEN NoPath
    ELSE LET current == Head(queue)
             rest == Tail(queue)
         IN  IF AtDepthLimit(current, maxDepth)
             THEN SearchLoop(adj, toId, maxDepth, rest, visited)
             ELSE LET scan == ScanEdges(AdjGet(adj, current.personId), 1, current, toId,
                                        rest, visited)
                  IN  IF scan.found THEN scan.result
                      ELSE SearchLoop(adj, toId, maxDepth, scan.queue, scan.visited)

\* a variant whose first queue entry has an empty path
findShortestPath_NoStart(adj, fromId, toId, maxDepth) ==
    IF fromId = toId
    THEN [found |-> TRUE, personIds |-> <<fromId>>, types |-> <<>>]
    ELSE SearchLoop(adj, toId, maxDepth,
                    <<[personId |-> fromId, path |-> <<>>, types |-> <<>>]>>,
                    {fromId})

findShortestPath(adj, fromId, toId, maxDepth) ==
    IF fromId = toId
    THEN [found |-> TRUE, personIds |-> <<fromId>>, types |-> <<>>]
    ELSE SearchLoop(adj, toId, maxDepth,
                    <<[personId |-> fromId, path |-> <<fromId>>, types |-> <<>>]>>,
                    {fromId})

\* a caller runs the search on the current graph
FindPath ==
    /\ ~query.done
    /\ query.fromId # NoId
    /\ query' = [query EXCEPT !.done = TRUE,
                    !.result = findShortestPath(adjacencyList, query.fromId, query.toId,
                                                query.maxDepth)]
    /\ UNCHANGED <<mem, db, ids, calls, ret>>

\* ------------------------------------------------------------------------
\* The same search, one loop iteration at a time.  The query carries the
\* search's locals (queue, visited) between iterations.
\* ------------------------------------------------------------------------
\* a variant that reads the head and leaves it on the queue
Dequeue_Peek(queue) == queue

\* what queue.shift() leaves on the queue
Dequeue(queue) == Tail(queue)

\* the code before the loop: the fromId === toId return, or the first push
SearchStart ==
    /\ ~query.started
    /\ ~query.done
    /\ query' = IF query.fromId = query.toId
                THEN [query EXCEPT !.started = TRUE, !.done = TRUE,
                         !.result = [found |-> TRUE, personIds |-> <<query.fromId>>,
                                     types |-> <<>>]]
                ELSE [query EXCEPT !.started = TRUE,
                         !.queue = Enqueue(<<>>, [personId |-> query.fromId,
                                                  path |-> <<query.fromId>>, types |-> <<>>]),
                         !.visited = {query.fromId}]
    /\ UNCHANGED <<mem, db, ids, calls, ret>>

\* one iteration of `while (queue.length > 0)`
SearchStep ==
    /\ query.started
    /\ ~query.done
    /\ query.queue # <<>>
    /\ LET current == Head(query.queue)
           rest == Dequeue(query.queue)
       IN  IF AtDepthLimit(current, query.maxDepth)
           THEN query' = [query EXCEPT !.queue = rest]
           ELSE LET scan == ScanEdges(AdjGet(adjacencyList, current.personId), 1, current,
                                      query.toId, rest, query.visited)
                IN  query' = IF scan.found
                             THEN [query EXCEPT !.done = TRUE, !.result = scan.result,
                                                !.queue = rest]
                             ELSE [query EXCEPT !.queue = scan.queue,
                                                !.visited = scan.visited]
    /\ UNCHANGED <<mem, db, ids, calls, ret>>

\* the loop ends with an empty queue: `return undefined`
SearchEnd ==
    /\ query.started
    /\ ~query.done
    /\ query.queue = <<>>
    /\ query' = [query EXCEPT !.done = TRUE, !.result = NoPath]
    /\ UNCHANGED <<mem, db, ids, calls, ret>>

\* ------------------------------------------------------------------------
\* RELATIONSHIP WORDS AND EXPLANATIONS
\* A sentence is a string; the empty string stands for null.
\* ------------------------------------------------------------------------
RELATIONSHIP_WORDS ==
    [parent  |-> [neutral |-> "parent",  female |-> "mom",      male |-> "dad"],
     child   |-> [neutral |-> "child",   female |-> "daughter", male |-> "son"],
     sibling |-> [neutral |-> "sibling", female |-> "sister",   male |-> "brother"],
     spouse  |-> [neutral |-> "spouse",  female |-> "wife",     male |-> "husband"],
     friend  |-> [neutral |-> "friend",  female |-> "friend",   male |-> "friend"]]

\* a variant of the table that lists the grandparents only
SHORTCUT_LABELS_GrandparentsOnly ==
    (<<"parent", "parent">> :>
        [neutral |-> "grandparent", female |-> "grandma", male |-> "grandpa"])

\* keyed by the sequence of types (the code joins them with '.'); a label
\* without a gendered form has "" there
SHORTCUT_LABELS ==
    (<<"parent", "parent">> :>
        [neutral |-> "grandparent", female |-> "grandma", male |-> "grandpa"]) @@
    (<<"parent", "parent", "parent">> :>
        [neutral |-> "great-grandparent", female |-> "great-grandma", male |-> "great-grandpa"]) @@
    (<<"child", "child">> :>
        [neutral |-> "grandchild", female |-> "granddaughter", male |-> "grandson"]) @@
    (<<"child", "child", "child">> :>
        [neutral |-> "great-grandchild", female |-> "great-granddaughter",
         male |-> "great-grandson"]) @@
    (<<"parent", "sibling">> :>
        [neutral |-> "aunt/uncle", female |-> "aunt", male |-> "uncle"]) @@
    (<<"sibling", "child">> :>
        [neutral |-> "niece/nephew", female |-> "niece", male |-> "nephew"]) @@
    (<<"parent", "sibling", "child">> :>
        [neutral |-> "cousin", female |-> "", male |-> ""]) @@
    (<<"spouse", "parent">> :>
        [neutral |-> "parent-in-law", female |-> "mother-in-law", male |-> "father-in-law"]) @@
    (<<"spouse", "sibling">> :>
        [neutral |-> "sibling-in-law", female |-> "sister-in-law", male |-> "brother-in-law"]) @@
    (<<"sibling", "spouse">> :>
        [neutral |-> "sibling-in-law", female |-> "sister-in-law", male |-> "brother-in-law"]) @@
    (<<"child", "spouse">> :>
        [neutral |-> "child-in-law", female |-> "daughter-in-law", male |-> "son-in-law"]) @@
    (<<"parent", "spouse">> :>
        [neutral |-> "step-parent", female |-> "step-mom", male |-> "step-dad"]) @@
    (<<"parent", "spouse", "child">> :>
        [neutral |-> "step-sibling", female |-> "step-sister", male |-> "step-brother"])

getRelationshipWord(type, gender) ==
    LET words == RELATIONSHIP_WORDS[type]
    IN  IF gender = "female" THEN words.female
        ELSE IF gender = "male" THEN words.male
        ELSE words.neutral

\* a variant that knows no shortcut
getShortcutLabel_None(types, gender) == ""

\* "" when there is no shortcut for the path
getShortcutLabel(types, gender) ==
    IF types \notin DOMAIN SHORTCUT_LABELS THEN ""
    ELSE LET shortcut == SHORTCUT_LABELS[types]
         IN  IF gender = "female" /\ shortcut.female # "" THEN shortcut.female
             ELSE IF gender = "male" /\ shortcut.male # "" THEN shortcut.male
             ELSE shortcut.neutral

\* the adjacency entries of a person whose other end is a cached person
getDirectRelationships(people, adj, personId) ==
    LET Known(e) == e.personId \in DOMAIN people
    IN  SelectSeq(AdjGet(adj, personId), Known)

\* array.slice(0, n)
Slice(list, n) == SubSeq(list, 1, IF Len(list) < n THEN Len(list) ELSE n)

Includes(list, x) == \E i \in 1..Len(list) : list[i] = x

buildNameChain(people, path, startLabel) ==
    LET n == Len(path.types)
        targetId == path.personIds[Len(path.personIds)]
        middleId == path.personIds[2]
    IN  IF n = 0 THEN ""
        ELSE IF targetId \notin DOMAIN people THEN ""
        ELSE IF n = 1
        THEN startLabel \o " " \o getRelationshipWord(path.types[1], people[targetId].gender)
        ELSE LET shortcut == getShortcutLabel(path.types, people[targetId].gender)
             IN  IF shortcut # "" THEN startLabel \o " " \o shortcut
                 ELSE IF middleId \notin DOMAIN people THEN ""
                 ELSE IF n = 2
                 THEN startLabel \o " "
                        \o getRelationshipWord(path.types[1], people[middleId].gender) \o "'s "
                        \o getRelationshipWord(path.types[2], people[targetId].gender)
                 ELSE "connected through " \o people[middleId].name

\* getPerspective(): NoId when no perspective is set or the person is not cached
getPerspective(people, persp) == IF persp \in DOMAIN people THEN persp ELSE NoId

\* the sentence for the direct path from the perspective, if any
DirectExplanation(people, adj, perspective, personId) ==
    IF perspective = NoId THEN <<>>
    ELSE LET path == findShortestPath(adj, perspective, personId, DefaultMaxDepth)
         IN  IF ~(path.found /\ Len(path.types) > 0) THEN <<>>
             ELSE LET shortcut == getShortcutLabel(path.types, people[personId].gender)
                      chain == buildNameChain(people, path, "your")
                  IN  IF shortcut # "" THEN <<"your " \o shortcut>>
                      ELSE IF chain # "" THEN <<chain>>
                      ELSE <<>>

\* a variant without reference people
closeFamily_Nobody(people, adj, perspective) == <<>>

\* the reference people: the first three non-friend relationships of the perspective
closeFamily(people, adj, perspective) ==
    LET NotFriend(r) == r.type # "friend"
    IN  Slice(SelectSeq(getDirectRelationships(people, adj, perspective), NotFriend), 3)

\* what one reference person contributes: the phrase ("" for none) and the
\* number of edges of the path it was built from
ReferencePhrase(people, adj, familyMember, personId) ==
    LET pathFromFamily == findShortestPath(adj, familyMember.personId, personId,
                                           ReferenceMaxDepth)
        none == [chain |-> "", edges |-> 0]
    IN  IF familyMember.personId = personId THEN none
        ELSE IF ~pathFromFamily.found \/ Len(pathFromFamily.types) = 0 THEN none
        ELSE IF Len(pathFromFamily.types) > 2 THEN none
        ELSE [chain |-> buildNameChain(people, pathFromFamily,
                                       people[familyMember.personId].name \o "'s"),
              edges |-> Len(pathFromFamily.types)]

\* the `for (const familyMember of closeFamily.slice(0, 3))` loop, from member i on
RECURSIVE ReferenceLoop(_, _, _, _, _, _)
ReferenceLoop(people, adj, family, i, personId, explanations) ==
    IF i > Len(family) THEN explanations
    ELSE LET chain == ReferencePhrase(people, adj, family[i], personId).chain
         IN  ReferenceLoop(people, adj, family, i + 1, personId,
                           IF chain # "" /\ ~Includes(explanations, chain)
                           THEN Append(explanations, chain) ELSE explanations)

\* "If no perspective or no path found, show direct relationships"
DirectRelationshipSentences(people, adj, personId) ==
    LET direct == Slice(getDirectRelationships(people, adj, personId), 3)
    IN  [i \in 1..Len(direct) |->
            people[direct[i].personId].name \o "'s "
                \o getRelationshipWord(direct[i].type, people[personId].gender)]

\* explainPerson(personId).explanations
explainPerson(people, adj, persp, personId) ==
    LET perspective == getPerspective(people, persp)
    IN  IF personId \notin DOMAIN people THEN <<>>
        ELSE IF perspective # NoId /\ personId = perspective THEN <<"This is you!">>
        ELSE LET direct == DirectExplanation(people, adj, perspective, personId)
                 withFamily ==
                     IF perspective = NoId THEN direct
                     ELSE ReferenceLoop(people, adj, closeFamily(people, adj, perspective),
                                        1, personId, direct)
                 explanations ==
                     IF Len(withFamily) = 0
                     THEN DirectRelationshipSentences(people, adj, personId)
                     ELSE withFamily
             IN  Slice(explanations, 4)

\* a caller asks for the explanation of a person on the current graph
ExplainPerson ==
    /\ ~query.done
    /\ query' = [query EXCEPT !.done = TRUE,
                    !.explanations = explainPerson(peopleCache, adjacencyList,
                                                   perspectiveId, query.personId)]
    /\ UNCHANGED <<mem, db, ids, calls, ret>>

\* ------------------------------------------------------------------------
\* NAMETAG GENERATION
\* A nametag is a sequence of lines [label, names].
\* ------------------------------------------------------------------------
\* byType[type]: the direct relationships of the given type, in list order
byType(people, adj, personId, type) ==
    LET OfType(r) == r.type = type
    IN  SelectSeq(getDirectRelationships(people, adj, personId), OfType)

\* "Grandchildren (children's children)": the loop over byType.child, from child i on
RECURSIVE grandchildren(_, _, _, _)
grandchildren(people, adj, children, i) ==
    IF i > Len(children) THEN <<>>
    ELSE byType(people, adj, children[i].personId, "child")
            \o grandchildren(people, adj, children, i + 1)

\* group.map(p => p.name)
NamesOf(people, group) == [i \in 1..Len(group) |-> people[group[i].personId].name]

GenderedLabel(gender, female, male, neutral) ==
    IF gender = "female" THEN female ELSE IF gender = "male" THEN male ELSE neutral

\* a variant that emits the line of an empty group as well
NametagLine_Always(people, group, label) ==
    <<[label |-> label, names |-> NamesOf(people, group)]>>

\* `if (group.length > 0) lines.push({ label, names })`
NametagLine(people, group, label) ==
    IF Len(group) > 0 THEN <<[label |-> label, names |-> NamesOf(people, group)]>> ELSE <<>>

\* generateNametag(personId).lines
generateNametag(people, adj, personId) ==
    IF personId \notin DOMAIN people THEN <<>>
    ELSE LET gender == people[personId].gender
             children == byType(people, adj, personId, "child")
         IN  NametagLine(people, byType(people, adj, personId, "spouse"),
                         GenderedLabel(gender, "Wife of", "Husband of", "Married to"))
             \o NametagLine(people, children,
                            GenderedLabel(gender, "Mother of", "Father of", "Parent of"))
             \o NametagLine(people, grandchildren(people, adj, children, 1),
                            GenderedLabel(gender, "Grandma to", "Grandpa to", "Grandparent of"))
             \o NametagLine(people, byType(people, adj, personId, "parent"),
                            GenderedLabel(gender, "Daughter of", "Son of", "Child of"))
             \o NametagLine(people, byType(people, adj, personId, "sibling"),
                            GenderedLabel(gender, "Sister of", "Brother of", "Sibling of"))

\* a caller asks for the nametag of a person on the current graph
GenerateNametag ==
    /\ ~query.done
    /\ query' = [query EXCEPT !.done = TRUE,
                    !.lines = generateNametag(peopleCache, adjacencyList, query.personId)]
    /\ UNCHANGED <<mem, db, ids, calls, ret>>

\* Single-writer discipline: the caller awaits each call before the next one.
Next ==
    \/ Quiet /\ \E p \in PersonIds \cup {NoId} : SetPerspective(p)
    \/ Quiet /\ \E s \in Slots, g \in InputGenders : AddPerson(s, g)
    \/ \E s \in Slots : AddPersonCommit(s)
    \/ Quiet /\ \E s \in Slots, p \in PersonIds, g \in InputGenders : UpdatePerson(s, p, g)
    \/ \E s \in Slots : UpdatePersonCommit(s)
    \/ Quiet /\ \E s \in Slots, p \in PersonIds : DeletePerson(s, p)
    \/ \E s \in Slots : DeletePersonRelStep(s)
    \/ \E s \in Slots : DeletePersonCommit(s)
    \/ Quiet /\ \E s \in Slots, a \in PersonIds, t \in InputTypes :
           \E b \in PersonIds \ {a} : AddRelationship(s, a, b, t)
    \/ \E s \in Slots : AddRelationshipCommit(s)
    \/ Quiet /\ \E s \in Slots, r \in RelIds : DeleteRelationship(s, r)
    \/ \E s \in Slots : DeleteRelationshipCommit(s)
    \/ Quiet /\ \E s \in Slots, d \in ImportPayloads : ImportData(s, d)
    \/ \E s \in Slots : ImportDataWrite(s)
    \/ \E s \in Slots : InitializeLoad(s)
    \/ Quiet /\ \E s \in Slots : ClearAll(s)
    \/ \E s \in Slots : ClearAllCommit(s)
    \/ Quiet /\ \E saved \in PersonIds \cup {NoId} : InitEngine(saved)
    \/ \E s \in Slots : StorageFail(s)
    \/ CallerResumes

Spec == Init /\ [][Next]_vars

\* ------------------------------------------------------------------------
\* No single-writer discipline: a caller issues add and delete calls without
\* awaiting the ones in flight (the engine itself has no lock or queue), so
\* calls overlap at their awaits.
\* ------------------------------------------------------------------------
OverlapTypes == {"parent", "sibling"}

NextOverlap ==
    \/ \E s \in Slots : AddPerson(s, "none")
    \/ \E s \in Slots : AddPersonCommit(s)
    \/ \E s \in Slots, a \in PersonIds, t \in OverlapTypes :
           \E b \in PersonIds \ {a} : AddRelationship(s, a, b, t)
    \/ \E s \in Slots : AddRelationshipCommit(s)
    \/ \E s \in Slots, r \in RelIds : DeleteRelationship(s, r)
    \/ \E s \in Slots : DeleteRelationshipCommit(s)
    \/ \E s \in Slots : StorageFail(s)
    \/ CallerResumes

SpecOverlap == Init /\ [][NextOverlap]_vars

\* ------------------------------------------------------------------------
\* A delete of a person overlapping add calls: the caller issues addPerson,
\* addRelationship and deletePerson without awaiting the calls in flight.
\* One deletePerson runs at a time, so the list its loop walks only grows
\* while it is suspended.
\* ------------------------------------------------------------------------
NoDeleteInFlight == \A s \in Slots : calls[s].op # "deletePerson"

NextRace ==
    \/ \E s \in Slots : AddPerson(s, "none")
    \/ \E s \in Slots : AddPersonCommit(s)
    \/ \E s \in Slots, a \in PersonIds, t \in OverlapTypes :
           \E b \in PersonIds \ {a} : AddRelationship(s, a, b, t)
    \/ \E s \in Slots : AddRelationshipCommit(s)
    \/ NoDeleteInFlight /\ \E s \in Slots, p \in PersonIds : DeletePerson(s, p)
    \/ \E s \in Slots : DeletePersonRelStep(s)
    \/ \E s \in Slots : DeletePersonCommit(s)
    \/ CallerResumes

SpecRace == Init /\ [][NextRace]_vars

\* ------------------------------------------------------------------------
\* The path search on its own: the engine holds a loaded graph and one search
\* is run on it.  The graphs are people 1..n in a chain of relationships
\* (relationship i joins i and i+1), with at most one further relationship
\* between any two of them (a cycle, a second edge or a self-relationship).
\* ------------------------------------------------------------------------
ChainTypes == {"parent", "friend"}
ExtraTypes == {"parent", "sibling", "friend"}
PathDepths == {ReferenceMaxDepth, DefaultMaxDepth}

ChainGraphs(n) ==
    { [r \in 1..(n - 1) |-> [personAId |-> r, personBId |-> r + 1, type |-> t[r]]] :
        t \in [1..(n - 1) -> ChainTypes] }

ExtraRels(n) ==
    { [personAId |-> a, personBId |-> b, type |-> t] :
        a \in 1..n, b \in 1..n, t \in ExtraTypes } 

PathGraphs(n) ==
    ChainGraphs(n) \cup
    { Put(g, n, x) : g \in ChainGraphs(n), x \in {y \in ExtraRels(n) : y.personBId <= y.personAId} }

InitPath ==
    /\ \E n \in 2..MaxPathPeople :
         /\ peopleCache = [p \in 1..n |-> NoPerson]
         /\ relationshipsCache \in PathGraphs(n)
         /\ \E f \in 1..n, t \in 1..n, d \in PathDepths :
              query = [fromId |-> f, toId |-> t, maxDepth |-> d, done |-> FALSE,
                       result |-> NoPath]
    /\ adjacencyList = InitialAdjacency(peopleCache, relationshipsCache)
    /\ perspectiveId = NoId
    /\ dbPeople = peopleCache
    /\ dbRelationships = relationshipsCache
    /\ nextPersonId = MaxOf(DOMAIN peopleCache, 0) + 1
    /\ nextRelId = MaxOf(DOMAIN relationshipsCache, 0) + 1
    /\ calls = [s \in Slots |-> Idle]
    /\ ret = NoRet

NextPath == FindPath

SpecPath == InitPath /\ [][NextPath]_vars

\* ------------------------------------------------------------------------
\* The search loop on its own: the same graphs as for the path search, and
\* the search runs iteration by iteration.  The loop is sequential code that
\* always goes on to its next iteration, hence the weak fairness.
\* ------------------------------------------------------------------------
InitSearch ==
    /\ \E n \in 2..MaxSearchPeople :
         /\ peopleCache = [p \in 1..n |-> NoPerson]
         /\ relationshipsCache \in PathGraphs(n)
         /\ \E f \in 1..n, t \in 1..n, d \in PathDepths :
              query = [fromId |-> f, toId |-> t, maxDepth |-> d, started |-> FALSE,
                       done |-> FALSE, result |-> NoPath, queue |-> <<>>, visited |-> {}]
    /\ adjacencyList = InitialAdjacency(peopleCache, relationshipsCache)
    /\ perspectiveId = NoId
    /\ dbPeople = peopleCache
    /\ dbRelationships = relationshipsCache
    /\ nextPersonId = MaxOf(DOMAIN peopleCache, 0) + 1
    /\ nextRelId = MaxOf(DOMAIN relationshipsCache, 0) + 1
    /\ calls = [s \in Slots |-> Idle]
    /\ ret = NoRet

NextSearch ==
    \/ SearchStart
    \/ SearchStep
    \/ SearchEnd

SpecSearch == InitSearch /\ [][NextSearch]_vars /\ WF_vars(NextSearch)

\* ------------------------------------------------------------------------
\* The explanation on its own: the engine holds a loaded graph and a
\* perspective, and one person is explained.  The graphs are people 1..n,
\* each person after the first joined to the person before or to the first
\* one (relationship i - 1 joins person i), with at most one further
\* relationship between two of them.  People carry the names of Names in turn, or only the first two of
\* them so that people share names; the person explained may carry a gender.
\* ------------------------------------------------------------------------
MaxExplainPeople == 4

Names == <<"Alice", "Bob", "Carol", "Dave", "Eve">>
NameTables(n) ==
    { [p \in 1..n |-> Names[((p - 1) % Len(Names)) + 1]],
      [p \in 1..n |-> Names[((p - 1) % 2) + 1]] }

TreeTypes == {"parent", "spouse"}

TreeGraphs(n) ==
    { [r \in 1..(n - 1) |-> [personAId |-> at[r], personBId |-> r + 1, type |-> t[r]]] :
        at \in {f \in [1..(n - 1) -> 1..n] : \A r \in 1..(n - 1) : f[r] \in {1, r}},
        t \in [1..(n - 1) -> TreeTypes] }

ExplainGraphs(n) ==
    TreeGraphs(n) \cup
    { Put(g, n, x) : g \in TreeGraphs(n),
                     x \in {y \in ExtraRels(n) : y.personAId < y.personBId /\ y.type # "friend"} }

InitExplain ==
    /\ \E n \in 2..MaxExplainPeople :
         /\ relationshipsCache \in ExplainGraphs(n)
         /\ \E names \in NameTables(n), target \in 1..n, g \in Genders :
              /\ peopleCache = [p \in 1..n |->
                                   [gender |-> IF p = target THEN g ELSE "none",
                                    isUser |-> FALSE, name |-> names[p]]]
              /\ query = [personId |-> target, done |-> FALSE, explanations |-> <<>>]
         /\ perspectiveId \in 0..n
    /\ adjacencyList = InitialAdjacency(peopleCache, relationshipsCache)
    /\ dbPeople = peopleCache
    /\ dbRelationships = relationshipsCache
    /\ nextPersonId = MaxOf(DOMAIN peopleCache, 0) + 1
    /\ nextRelId = MaxOf(DOMAIN relationshipsCache, 0) + 1
    /\ calls = [s \in Slots |-> Idle]
    /\ ret = NoRet

NextExplain == ExplainPerson

SpecExplain == InitExplain /\ [][NextExplain]_vars

\* ------------------------------------------------------------------------
\* The label lookup on its own: a chain of edge types and a target gender
\* are resolved against the table.
\* ------------------------------------------------------------------------
MaxChainLength == 5

LabelChains == UNION {[1..k -> RelationshipTypes] : k \in 0..MaxChainLength}

InitLabel ==
    /\ peopleCache = EmptyMap
    /\ relationshipsCache = EmptyMap
    /\ adjacencyList = EmptyMap
    /\ perspectiveId = NoId
    /\ dbPeople = EmptyMap
    /\ dbRelationships = EmptyMap
    /\ nextPersonId = 1
    /\ nextRelId = 1
    /\ calls = [s \in Slots |-> Idle]
    /\ ret = NoRet
    /\ \E types \in LabelChains, g \in Genders :
           query = [types |-> types, gender |-> g, done |-> FALSE, label |-> ""]

\* a caller resolves the label of a chain
ResolveLabel ==
    /\ ~query.done
    /\ query' = [query EXCEPT !.done = TRUE,
                    !.label = getShortcutLabel(query.types, query.gender)]
    /\ UNCHANGED <<mem, db, ids, calls, ret>>

NextLabel == ResolveLabel

SpecLabel == InitLabel /\ [][NextLabel]_vars

\* ------------------------------------------------------------------------
\* The nametag on its own: the engine holds a loaded graph and the nametag of
\* one person is generated.  The graphs are built like those of the
\* explanation, with friend relationships as well.
\* ------------------------------------------------------------------------
NametagTreeTypes == {"parent", "spouse", "friend"}

NametagTrees(n) ==
    { [r \in 1..(n - 1) |-> [personAId |-> at[r], personBId |-> r + 1, type |-> t[r]]] :
        at \in {f \in [1..(n - 1) -> 1..n] : \A r \in 1..(n - 1) : f[r] \in {1, r}},
        t \in [1..(n - 1) -> NametagTreeTypes] }

NametagGraphs(n) ==
    NametagTrees(n) \cup
    { Put(g, n, x) : g \in NametagTrees(n),
                     x \in {y \in ExtraRels(n) : y.personAId < y.personBId} }

InitNametag ==
    /\ \E n \in 2..MaxExplainPeople :
         /\ relationshipsCache \in NametagGraphs(n)
         /\ \E names \in NameTables(n), target \in 1..n, g \in Genders :
              /\ peopleCache = [p \in 1..n |->
                                   [gender |-> IF p = target THEN g ELSE "none",
                                    isUser |-> FALSE, name |-> names[p]]]
              /\ query = [personId |-> target, done |-> FALSE, lines |-> <<>>]
    /\ perspectiveId = NoId
    /\ adjacencyList = InitialAdjacency(peopleCache, relationshipsCache)
    /\ dbPeople = peopleCache
    /\ dbRelationships = relationshipsCache
    /\ nextPersonId = MaxOf(DOMAIN peopleCache, 0) + 1
    /\ nextRelId = MaxOf(DOMAIN relationshipsCache, 0) + 1
    /\ calls = [s \in Slots |-> Idle]
    /\ ret = NoRet

NextNametag == GenerateNametag

SpecNametag == InitNametag /\ [][NextNametag]_vars

\* ========================================================================
\* PROPERTIES
\* ========================================================================
Involves(rel, p) == rel.personAId = p \/ rel.personBId = p

PointsAt(adj, q, p) == \E i \in 1..Len(adj[q]) : adj[q][i].personId = p

Finished(op) == ret.call.op = op /\ ret.status = "ok"

\* C1: the relationship store never holds two records with the same ordered
\* pair (personA, personB) and the same type, and addRelationship(A, B, t)
\* called while such a record exists returns that record and creates nothing.
C1_AddRelationshipIdempotent ==
    /\ \A r1 \in DOMAIN relationshipsCache, r2 \in DOMAIN relationshipsCache :
           relationshipsCache[r1] = relationshipsCache[r2] => r1 = r2
    /\ Finished("addRelationship") =>
           LET before == ret.call.pre.rels
               same == {r \in DOMAIN before : before[r] = ret.call.rel}
           IN  same # {} => ret.id \in same /\ relationshipsCache = before

\* C2: after deletePerson(P) has completed, no stored relationship has P as
\* personA or personB and no adjacency entry of a remaining person points to P.
C2_DeletePersonRemovesEveryReference ==
    Finished("deletePerson") =>
        /\ \A r \in DOMAIN relationshipsCache :
               ~Involves(relationshipsCache[r], ret.call.pid)
        /\ \A q \in DOMAIN adjacencyList : ~PointsAt(adjacencyList, q, ret.call.pid)

\* C3: while deletePerson(P) is suspended on one of its storage writes, a
\* reader never finds some of P's relationships gone from the relationship
\* store while P or adjacency entries of P are still present.
C3_DeletePersonAtomicForReaders ==
    \A s \in Slots :
        calls[s].op = "deletePerson" =>
            LET p == calls[s].pid
                gone == {r \in DOMAIN calls[s].pre.rels :
                            /\ Involves(calls[s].pre.rels[r], p)
                            /\ r \notin DOMAIN relationshipsCache}
                present == \/ p \in DOMAIN peopleCache
                           \/ p \in DOMAIN adjacencyList
                           \/ \E q \in DOMAIN adjacencyList : PointsAt(adjacencyList, q, p)
            IN  ~(gone # {} /\ present)

\* C4: in every reachable state the perspective is empty or the id of a
\* person currently in the people store.
C4_PerspectiveIsStoredPerson ==
    perspectiveId = NoId \/ perspectiveId \in DOMAIN peopleCache

\* C5: deletePerson(P) empties the perspective when the perspective was P and
\* leaves it unchanged when it was another person or empty.
C5_DeletePersonPerspective ==
    Finished("deletePerson") =>
        perspectiveId = IF ret.call.pre.persp = ret.call.pid THEN NoId
                        ELSE ret.call.pre.persp

C5_Witness ==
    /\ Finished("deletePerson")
    /\ ret.call.pid \in DOMAIN ret.call.pre.people
    /\ ret.call.pre.persp = ret.call.pid

Mutations == {"addPerson", "updatePerson", "deletePerson", "addRelationship",
              "deleteRelationship"}

C7_FailureLeavesMemoryUntouched ==
    ret.status = "error" =>
        /\ peopleCache = ret.call.pre.people
        /\ relationshipsCache = ret.call.pre.rels
        /\ adjacencyList = ret.call.pre.adj
        /\ perspectiveId = ret.call.pre.persp

\* ------------------------------------------------------------------------
\* Path properties.  Route lengths are defined on the graph, without the search.
\* ------------------------------------------------------------------------
Targets(adj, q) == {adj[q][i].personId : i \in 1..Len(adj[q])}
Nodes(adj) == (DOMAIN adj) \cup UNION {Targets(adj, q) : q \in DOMAIN adj}

HasEdge(adj, u, v) == \E i \in 1..Len(AdjGet(adj, u)) : AdjGet(adj, u)[i].personId = v
HasKinEdge(adj, u, v) ==
    \E i \in 1..Len(AdjGet(adj, u)) :
        AdjGet(adj, u)[i].personId = v /\ AdjGet(adj, u)[i].type # "friend"

\* people reachable from S in at most k edges
RECURSIVE Within(_, _, _)
Within(adj, S, k) ==
    IF k <= 0 THEN S
    ELSE LET W == Within(adj, S, k - 1)
         IN  W \cup {v \in Nodes(adj) : \E u \in W : HasEdge(adj, u, v)}

\* people reachable from S in at most k edges none of which is a friend edge
RECURSIVE KinWithin(_, _, _)
KinWithin(adj, S, k) ==
    IF k <= 0 THEN S
    ELSE LET W == KinWithin(adj, S, k - 1)
         IN  W \cup {v \in Nodes(adj) : \E u \in W : HasKinEdge(adj, u, v)}

\* the graph has a route from f to t of at most k edges
RouteWithin(adj, f, t, k) == k >= 0 /\ t \in Within(adj, {f}, k)

\* ... on which only the last edge may be a friend edge
AdmissibleRouteWithin(adj, f, t, k) ==
    /\ k >= 0
    /\ \/ f = t
       \/ k >= 1 /\ \E u \in KinWithin(adj, {f}, k - 1) : HasEdge(adj, u, t)

Searched == query.done
Found == query.done /\ query.result.found
PathLen == Len(query.result.types)

GraphIs(rels) == relationshipsCache = rels /\ DOMAIN peopleCache = 1..3

\* C8: in every path the search returns a friend edge appears only as the
\* last edge; with A-friend-B and B-parent-C as the only relationships the
\* search from A to C finds nothing, while with A-parent-P and P-friend-T the
\* search from A to T finds the path ending in the friend edge.
C8_FriendOnlyLast ==
    /\ Found => \A i \in 1..(PathLen - 1) : query.result.types[i] # "friend"
    /\ ( /\ Searched
         /\ GraphIs(<<[personAId |-> 1, personBId |-> 2, type |-> "friend"],
                      [personAId |-> 2, personBId |-> 3, type |-> "parent"]>>)
         /\ query.fromId = 1 /\ query.toId = 3 ) => ~query.result.found
    /\ ( /\ Searched
         /\ GraphIs(<<[personAId |-> 1, personBId |-> 2, type |-> "parent"],
                      [personAId |-> 2, personBId |-> 3, type |-> "friend"]>>)
         /\ query.fromId = 1 /\ query.toId = 3 ) =>
             /\ query.result.found
             /\ query.result.personIds = <<1, 2, 3>>
             /\ query.result.types = <<"child", "friend">>

C8_Witness ==
    /\ Found
    /\ PathLen >= 2
    /\ query.result.types[PathLen] = "friend"
    /\ \E q \in DOMAIN adjacencyList : \E i \in 1..Len(adjacencyList[q]) :
           adjacencyList[q][i].type = "friend" /\ adjacencyList[q][i].personId # query.toId

\* C9 as stated: a returned path is never longer than the shortest route
\* between from and to in the graph.
C9_NotLongerThanShortestRoute ==
    Found => ~RouteWithin(adjacencyList, query.fromId, query.toId, PathLen - 1)

\* C9 amended: a returned path is never longer than the shortest route on
\* which only the last edge may be a friend edge.
C9_NotLongerThanShortestAdmissibleRoute ==
    Found => ~AdmissibleRouteWithin(adjacencyList, query.fromId, query.toId, PathLen - 1)

\* a shorter route exists, but it passes through a friend
C9_Witness ==
    /\ Found
    /\ RouteWithin(adjacencyList, query.fromId, query.toId, PathLen - 1)

InverseLabel(t) ==
    IF t = "parent" THEN "child" ELSE IF t = "child" THEN "parent" ELSE t

HasEntry(adj, q, e) == q \in DOMAIN adj /\ \E i \in 1..Len(adj[q]) : adj[q][i] = e

Reaches(adj, u, v, t) ==
    u \in DOMAIN adj /\ \E i \in 1..Len(adj[u]) : adj[u][i].personId = v /\ adj[u][i].type = t

RECURSIVE Without(_, _)
Without(list, rid) ==
    IF list = <<>> THEN <<>>
    ELSE IF Head(list).relationshipId = rid THEN Without(Tail(list), rid)
    ELSE <<Head(list)>> \o Without(Tail(list), rid)

\* every hop of the path is an adjacency entry that does not belong to rid
PathAvoids(adj, path, rid) ==
    \A i \in 1..Len(path.types) :
        \E k \in 1..Len(AdjGet(adj, path.personIds[i])) :
            LET e == AdjGet(adj, path.personIds[i])[k]
            IN  /\ e.personId = path.personIds[i + 1]
                /\ e.type = path.types[i]
                /\ e.relationshipId # rid

\* C12: after deleteRelationship(r) has completed for a stored r, neither
\* endpoint's adjacency list holds an entry with relationship id r, every
\* other adjacency entry is as before, and no path a search returns on the
\* resulting graph uses the edge of r.
C12_DeleteRelationshipRemovesBothEntries ==
    (Finished("deleteRelationship") /\ ret.call.rel # NoRel) =>
        LET r == ret.call.rid
            before == ret.call.pre.adj
        IN  /\ \A q \in {ret.call.rel.personAId, ret.call.rel.personBId} :
                   ~\E i \in 1..Len(AdjGet(adjacencyList, q)) :
                        AdjGet(adjacencyList, q)[i].relationshipId = r
            /\ DOMAIN adjacencyList = DOMAIN before
            /\ \A q \in DOMAIN before : adjacencyList[q] = Without(before[q], r)
            /\ \A f \in DOMAIN peopleCache, t \in DOMAIN peopleCache :
                   LET path == findShortestPath(adjacencyList, f, t, DefaultMaxDepth)
                   IN  path.found => PathAvoids(adjacencyList, path, r)

\* a relationship is deleted while another one joins the same two people
C12_Witness ==
    /\ Finished("deleteRelationship")
    /\ ret.call.rel # NoRel
    /\ relationshipsCache # EmptyMap
    /\ findShortestPath(adjacencyList, ret.call.rel.personAId, ret.call.rel.personBId,
                        DefaultMaxDepth).found

\* C13: addRelationship(Bob, Carol, sibling) called while sibling(Bob, Carol)
\* is stored returns the stored record's id, performs no storage write, and
\* leaves the relationship store and every adjacency list unchanged.
C13_ReAddSiblingReturnsOriginal ==
    (Finished("addRelationship") /\ ret.call.rel.type = "sibling") =>
        LET before == ret.call.pre.rels
            same == {r \in DOMAIN before : before[r] = ret.call.rel}
        IN  same # {} =>
                /\ ret.id \in same
                /\ ret.rel = ret.call.rel
                /\ ret.call.await = "none"
                /\ dbRelationships = before
                /\ relationshipsCache = before
                /\ adjacencyList = ret.call.pre.adj

C13_Witness ==
    /\ Finished("addRelationship")
    /\ ret.call.rel.type = "sibling"
    /\ \E r \in DOMAIN ret.call.pre.rels : ret.call.pre.rels[r] = ret.call.rel
    /\ ret.id \in DOMAIN relationshipsCache

\* C14: addRelationship(A, B, t) with A or B not a stored person returns no
\* record, does not throw, performs no storage write, and leaves people,
\* relationships, adjacency lists and perspective unchanged.
C14_UnknownPersonIsSoftNoOp ==
    ( /\ ret.call.op = "addRelationship"
      /\ \/ ret.call.rel.personAId \notin DOMAIN ret.call.pre.people
         \/ ret.call.rel.personBId \notin DOMAIN ret.call.pre.people ) =>
        /\ ret.status = "ok"
        /\ ret.id = NoId
        /\ ret.rel = NoRel
        /\ ret.call.await = "none"
        /\ dbPeople = ret.call.pre.people
        /\ dbRelationships = ret.call.pre.rels
        /\ peopleCache = ret.call.pre.people
        /\ relationshipsCache = ret.call.pre.rels
        /\ adjacencyList = ret.call.pre.adj
        /\ perspectiveId = ret.call.pre.persp

\* personA is stored, personB is not
C14_Witness ==
    /\ ret.call.op = "addRelationship"
    /\ ret.call.rel.personAId \in DOMAIN peopleCache
    /\ ret.call.rel.personBId \notin DOMAIN peopleCache
    /\ ret.status = "ok"

\* the adjacency entries the relationships rels give person q, counted
EntriesOf(rels, q) ==
    Cardinality({r \in DOMAIN rels : rels[r].personAId = q}) +
    Cardinality({r \in DOMAIN rels : rels[r].personBId = q})

\* C15: after importData(data) has completed, the people, relationships and
\* adjacency entries in memory are exactly those of the storage
\* collaborator's post-import contents (the imported data); no person,
\* relationship or adjacency entry from before the import remains unless the
\* imported data holds it.
C15_ImportReplacesEverything ==
    Finished("importData") =>
        /\ dbPeople = ret.call.data.people
        /\ dbRelationships = ret.call.data.relationships
        /\ peopleCache = dbPeople
        /\ relationshipsCache = dbRelationships
        /\ DOMAIN adjacencyList =
               (DOMAIN dbPeople) \cup
               UNION {{dbRelationships[r].personAId, dbRelationships[r].personBId} :
                          r \in DOMAIN dbRelationships}
        /\ \A q \in DOMAIN adjacencyList :
               /\ Len(adjacencyList[q]) = EntriesOf(dbRelationships, q)
               /\ \A i \in 1..Len(adjacencyList[q]) :
                      LET e == adjacencyList[q][i]
                      IN  /\ e.relationshipId \in DOMAIN dbRelationships
                          /\ LET rel == dbRelationships[e.relationshipId]
                             IN  \/ /\ rel.personAId = q /\ rel.personBId = e.personId
                                    /\ e.type = InverseLabel(rel.type)
                                 \/ /\ rel.personBId = q /\ rel.personAId = e.personId
                                    /\ e.type = rel.type

\* an import over a graph holding a person and a relationship that the
\* imported data does not hold
C15_Witness ==
    /\ Finished("importData")
    /\ \E p \in DOMAIN ret.call.pre.people : p \notin DOMAIN ret.call.data.people
    /\ \E r \in DOMAIN ret.call.pre.rels : r \notin DOMAIN ret.call.data.relationships

\* the stored records other than r with the pair and type of rel
Twins(rels, r, rel) == {x \in (DOMAIN rels) \ {r} : rels[x] = rel}

\* C16: nothing keeps mutation calls from overlapping, and overlapping calls
\* corrupt the bookkeeping: an addRelationship(A, B, sibling) call stores a
\* second record of the same pair and type only when its duplicate check
\* ran before the write of the other record had completed (the record was
\* not yet there when the call started), which calls issued one after the
\* other never do.
C16_DuplicateOnlyFromOverlap ==
    ( /\ Finished("addRelationship")
      /\ ret.call.await = "saveRelationship"
      /\ ret.call.rel.type = "sibling" ) =>
        \A x \in Twins(relationshipsCache, ret.id, ret.call.rel) :
            x \notin DOMAIN ret.call.pre.rels

\* two stored sibling records of the same pair, each with its adjacency entries
C16_Witness ==
    \E r1 \in DOMAIN relationshipsCache :
        /\ relationshipsCache[r1].type = "sibling"
        /\ Twins(relationshipsCache, r1, relationshipsCache[r1]) # {}
        /\ Twins(dbRelationships, r1, relationshipsCache[r1]) # {}
        /\ Len(AdjGet(adjacencyList, relationshipsCache[r1].personAId)) >= 2

\* with calls issued one after the other no such state is reached
C16_SerialSiblingsDistinct ==
    \A r \in DOMAIN relationshipsCache :
        relationshipsCache[r].type = "sibling" =>
            Twins(relationshipsCache, r, relationshipsCache[r]) = {}

\* ------------------------------------------------------------------------
\* Explanations
\* ------------------------------------------------------------------------
Explained == query.done
Explaining(persp, target) == query.done /\ perspectiveId = persp /\ query.personId = target
NamedInTurn == \A q \in DOMAIN peopleCache : peopleCache[q].name = Names[q]

\* C17: with Alice, Bob, Carol, parent(Alice, Bob), parent(Bob, Carol) and
\* perspective Alice, the explanation of Carol (gender unspecified) contains
\* "your grandchild".
C17_GrandchildScenario ==
    ( /\ Explaining(1, 3)
      /\ relationshipsCache = <<[personAId |-> 1, personBId |-> 2, type |-> "parent"],
                                [personAId |-> 2, personBId |-> 3, type |-> "parent"]>>
      /\ DOMAIN peopleCache = 1..3
      /\ NamedInTurn
      /\ peopleCache[3].gender = "none" ) =>
        Includes(query.explanations, "your grandchild")

C17_Witness ==
    /\ Explaining(1, 3)
    /\ relationshipsCache = <<[personAId |-> 1, personBId |-> 2, type |-> "parent"],
                              [personAId |-> 2, personBId |-> 3, type |-> "parent"]>>
    /\ DOMAIN peopleCache = 1..3
    /\ NamedInTurn
    /\ peopleCache[3].gender = "none"
    /\ query.explanations = <<"your grandchild", "Bob's child">>

\* C18: with parent(Alice, Bob), parent(Bob, Carol), spouse(Alice, Dave), Dave
\* male and perspective Bob, the explanation of Dave includes the phrase
\* "Alice's husband", derived from the reference person Alice.
C18_ReferencePhraseScenario ==
    ( /\ Explaining(2, 4)
      /\ relationshipsCache = <<[personAId |-> 1, personBId |-> 2, type |-> "parent"],
                                [personAId |-> 2, personBId |-> 3, type |-> "parent"],
                                [personAId |-> 1, personBId |-> 4, type |-> "spouse"]>>
      /\ DOMAIN peopleCache = 1..4
      /\ NamedInTurn
      /\ peopleCache[4].gender = "male" ) =>
        Includes(query.explanations, "Alice's husband")

C18_Witness ==
    /\ Explaining(2, 4)
    /\ relationshipsCache = <<[personAId |-> 1, personBId |-> 2, type |-> "parent"],
                              [personAId |-> 2, personBId |-> 3, type |-> "parent"],
                              [personAId |-> 1, personBId |-> 4, type |-> "spouse"]>>
    /\ DOMAIN peopleCache = 1..4
    /\ NamedInTurn
    /\ peopleCache[4].gender = "male"
    /\ query.explanations = <<"your step-dad", "Alice's husband">>

\* where a sentence of the current explanation comes from: 3 the direct path
\* from the perspective, 2 a reference path of one edge, 1 a reference path
\* of two edges, 0 the direct-relationship fallback
Confidence(sentence) ==
    LET perspective == getPerspective(peopleCache, perspectiveId)
        direct == DirectExplanation(peopleCache, adjacencyList, perspective, query.personId)
        family == IF perspective = NoId THEN <<>>
                  ELSE closeFamily(peopleCache, adjacencyList, perspective)
        FromReference(edges) ==
            \E i \in 1..Len(family) :
                LET phrase == ReferencePhrase(peopleCache, adjacencyList, family[i],
                                              query.personId)
                IN  phrase.chain = sentence /\ phrase.edges = edges
    IN  IF direct # <<>> /\ direct[1] = sentence THEN 3
        ELSE IF FromReference(1) THEN 2
        ELSE IF FromReference(2) THEN 1
        ELSE 0

\* C19: the sentences of an explanation are in order of non-increasing
\* confidence: the direct-path sentence first when there is one, and a phrase
\* built from a one-edge reference path never after a phrase built from a
\* two-edge reference path.
C19_OrderedByConfidence ==
    Explained =>
        \A i \in 1..Len(query.explanations), j \in 1..Len(query.explanations) :
            i < j => Confidence(query.explanations[i]) >= Confidence(query.explanations[j])

\* C20: an explanation never contains the same sentence twice.
C20_NoRepeatedSentence ==
    Explained =>
        \A i \in 1..Len(query.explanations), j \in 1..Len(query.explanations) :
            i # j => query.explanations[i] # query.explanations[j]

\* the explanation came from the direct path and the reference people
FromPerspective ==
    /\ Explained
    /\ getPerspective(peopleCache, perspectiveId) # NoId
    /\ query.personId # perspectiveId
    /\ query.explanations #
           DirectRelationshipSentences(peopleCache, adjacencyList, query.personId)

\* the people on a path
OnPath(path) == {path.personIds[i] : i \in 1..Len(path.personIds)}

\* the path the phrase of a reference person is built from
ReferencePath(personId) ==
    findShortestPath(adjacencyList, personId, query.personId, ReferenceMaxDepth)

\* C21: no reference-derived sentence of an explanation is built from a
\* reference path that passes through the perspective person (a reference
\* such as the perspective's spouse, whose short path to the target goes
\* back through the perspective, is skipped).
C21_NoReferenceThroughPerspective ==
    FromPerspective =>
        LET family == closeFamily(peopleCache, adjacencyList, perspectiveId)
            direct == DirectExplanation(peopleCache, adjacencyList, perspectiveId,
                                        query.personId)
            Phrase(i) == ReferencePhrase(peopleCache, adjacencyList, family[i],
                                         query.personId).chain
            \* reference i is the one its sentence was built from
            Built(i) == /\ Phrase(i) # ""
                        /\ Includes(query.explanations, Phrase(i))
                        /\ ~Includes(direct, Phrase(i))
                        /\ \A j \in 1..(i - 1) : Phrase(j) # Phrase(i)
        IN  \A i \in 1..Len(family) :
                Built(i) => perspectiveId \notin OnPath(ReferencePath(family[i].personId))

\* the neighbours a person reaches by an edge of the given type
Related(adj, p, type) ==
    {AdjGet(adj, p)[i].personId : i \in {k \in 1..Len(AdjGet(adj, p)) : AdjGet(adj, p)[k].type = type}}

\* parents, siblings, spouse and children of p, the parents of p's parents
\* and the spouses of p's children
WellKnownPeople(people, adj, p) ==
    ( UNION {Related(adj, p, t) : t \in {"parent", "sibling", "spouse", "child"}}
      \cup UNION {Related(adj, q, "parent") : q \in Related(adj, p, "parent")}
      \cup UNION {Related(adj, q, "spouse") : q \in Related(adj, p, "child")} )
    \cap ((DOMAIN people) \ {p})

MaxExplanations == 4

\* C22: the reference people of a perspective P are P's parents, siblings,
\* spouse and children, P's grandparents and the spouses of P's children;
\* each of them other than the target that has a path of at most two edges to
\* the target is used as a naming anchor (its phrase is in the explanation
\* unless the explanation is full), however many direct relations P has.
C22_EveryWellKnownPersonIsAnchor ==
    (FromPerspective /\ Len(query.explanations) < MaxExplanations) =>
        \A w \in WellKnownPeople(peopleCache, adjacencyList, perspectiveId) \ {query.personId} :
            LET path == ReferencePath(w)
            IN  (path.found /\ Len(path.types) \in 1..2) =>
                    Includes(query.explanations,
                             buildNameChain(peopleCache, path, peopleCache[w].name \o "'s"))

\* the explanation is the direct-relationship fallback
Fallback ==
    /\ Explained
    /\ query.personId \in DOMAIN peopleCache
    /\ getPerspective(peopleCache, perspectiveId) = NoId
    /\ query.explanations # <<>>

\* C27: in the fallback branch each phrase "<neighbour>'s <word>" says what
\* the target is to that neighbour: for a neighbour who is the target's
\* parent the word is child / son / daughter by the target's gender, for a
\* neighbour who is the target's child it is parent / mom / dad.
C27_FallbackWordsSayWhatTargetIs ==
    Fallback =>
        LET direct == getDirectRelationships(peopleCache, adjacencyList, query.personId)
            target == peopleCache[query.personId]
            ChildWord == IF target.gender = "female" THEN "daughter"
                         ELSE IF target.gender = "male" THEN "son" ELSE "child"
            ParentWord == IF target.gender = "female" THEN "mom"
                          ELSE IF target.gender = "male" THEN "dad" ELSE "parent"
        IN  \A i \in 1..Len(query.explanations) :
                LET name == peopleCache[direct[i].personId].name
                IN  /\ direct[i].type = "parent" =>
                        query.explanations[i] = name \o "'s " \o ChildWord
                    /\ direct[i].type = "child" =>
                        query.explanations[i] = name \o "'s " \o ParentWord

\* ------------------------------------------------------------------------
\* Labels
\* ------------------------------------------------------------------------
\* the chains that have a label
ListedChains ==
    { <<"parent", "parent">>, <<"parent", "parent", "parent">>,
      <<"child", "child">>, <<"child", "child", "child">>,
      <<"parent", "sibling">>, <<"sibling", "child">>, <<"parent", "sibling", "child">>,
      <<"spouse", "parent">>, <<"spouse", "sibling">>, <<"sibling", "spouse">>,
      <<"child", "spouse">>, <<"parent", "spouse">>, <<"parent", "spouse", "child">> }

Resolved(types, gender) == query.done /\ query.types = types /\ query.gender = gender

\* C23: the label of a chain is found by exact match of the whole chain: a
\* listed chain gives its gendered form when the gender is known and the
\* entry has one, else its neutral form (parent,parent + female: grandma;
\* parent,sibling + male: uncle; parent,sibling,child: cousin for any
\* gender); every other chain, also a prefix, suffix or extension of a listed
\* one such as five parent edges, gives no label.
C23_LabelIsExactMatch ==
    query.done =>
        /\ query.types \in ListedChains <=> query.label # ""
        /\ query.types \in DOMAIN SHORTCUT_LABELS =>
               LET entry == SHORTCUT_LABELS[query.types]
               IN  query.label =
                       IF query.gender = "female" /\ entry.female # "" THEN entry.female
                       ELSE IF query.gender = "male" /\ entry.male # "" THEN entry.male
                       ELSE entry.neutral
        /\ Resolved(<<"parent", "parent">>, "female") => query.label = "grandma"
        /\ Resolved(<<"parent", "parent">>, "none") => query.label = "grandparent"
        /\ Resolved(<<"parent", "sibling">>, "male") => query.label = "uncle"
        /\ query.types = <<"parent", "sibling", "child">> => query.label = "cousin"
        /\ query.types \in { <<"parent">>, <<"sibling">>, <<"sibling", "parent">>,
                             <<"parent", "parent", "parent", "parent">>,
                             <<"parent", "parent", "parent", "parent", "parent">>,
                             <<"parent", "sibling", "child", "child">> } => query.label = ""

C23_Witness ==
    /\ Resolved(<<"parent", "sibling", "child">>, "female")
    /\ query.label = "cousin"

\* ------------------------------------------------------------------------
\* Nametags
\* ------------------------------------------------------------------------
\* the group a line belongs to: 1 spouse, 2 children, 3 grandchildren,
\* 4 parents, 5 siblings
GroupOf(label) ==
    IF label \in {"Wife of", "Husband of", "Married to"} THEN 1
    ELSE IF label \in {"Mother of", "Father of", "Parent of"} THEN 2
    ELSE IF label \in {"Grandma to", "Grandpa to", "Grandparent of"} THEN 3
    ELSE IF label \in {"Daughter of", "Son of", "Child of"} THEN 4
    ELSE IF label \in {"Sister of", "Brother of", "Sibling of"} THEN 5
    ELSE 0

\* the names on the line of group g (empty when there is no such line)
NamesOnLine(g) ==
    UNION { {query.lines[i].names[k] : k \in 1..Len(query.lines[i].names)} :
                i \in {j \in 1..Len(query.lines) : GroupOf(query.lines[j].label) = g} }

NamesOfPeople(S) == {peopleCache[q].name : q \in S \cap DOMAIN peopleCache}

\* every relationship of the person is a friend relationship
FriendOnly(q) ==
    /\ Len(AdjGet(adjacencyList, q)) > 0
    /\ \A i \in 1..Len(adjacencyList[q]) : adjacencyList[q][i].type = "friend"

\* C24: a nametag lists only non-empty groups, in the order spouse, children,
\* grandchildren, parents, siblings; the grandchildren group is exactly the
\* children of the person's children; and a person connected only by friend
\* edges appears in no line.  (People are told apart by name, so the last two
\* parts are stated for people with distinct names.)
C24_NametagGroups ==
    query.done =>
        LET p == query.personId
            kids == Related(adjacencyList, p, "child")
            grandkids == UNION {Related(adjacencyList, c, "child") : c \in kids}
        IN  /\ \A i \in 1..Len(query.lines) :
                   /\ Len(query.lines[i].names) > 0
                   /\ GroupOf(query.lines[i].label) \in 1..5
            /\ \A i \in 1..Len(query.lines), j \in 1..Len(query.lines) :
                   i < j => GroupOf(query.lines[i].label) < GroupOf(query.lines[j].label)
            /\ NamedInTurn =>
                   /\ NamesOnLine(1) = NamesOfPeople(Related(adjacencyList, p, "spouse"))
                   /\ NamesOnLine(2) = NamesOfPeople(kids)
                   /\ NamesOnLine(3) = NamesOfPeople(grandkids)
                   /\ NamesOnLine(4) = NamesOfPeople(Related(adjacencyList, p, "parent"))
                   /\ NamesOnLine(5) = NamesOfPeople(Related(adjacencyList, p, "sibling"))
                   /\ \A q \in DOMAIN peopleCache :
                          FriendOnly(q) =>
                              \A g \in 1..5 : peopleCache[q].name \notin NamesOnLine(g)

\* a nametag with children and grandchildren for a person who also has a friend
C24_Witness ==
    /\ query.done
    /\ NamedInTurn
    /\ NamesOnLine(2) # {}
    /\ NamesOnLine(3) # {}
    /\ \E q \in DOMAIN peopleCache :
           FriendOnly(q) /\ HasEdge(adjacencyList, query.personId, q)

\* ------------------------------------------------------------------------
\* Termination of the search
\* ------------------------------------------------------------------------
\* the graph has a relationship beyond the chain: a cycle, a second edge
\* between two people, or a self-relationship
HasExtraRelationship ==
    Cardinality(DOMAIN relationshipsCache) = Cardinality(DOMAIN peopleCache)

\* the iteration-wise search returns what findShortestPath returns
SearchAgrees ==
    query.done =>
        query.result = findShortestPath(adjacencyList, query.fromId, query.toId,
                                        query.maxDepth)

\* C25: the path search terminates on every finite graph, whatever cycles,
\* self-relationships or duplicate edges it has
C25_SearchTerminates == <>(query.done)

\* a search that ran until its queue was empty on a graph with an extra
\* relationship whose two people it visited
C25_Witness ==
    /\ query.done
    /\ ~query.result.found
    /\ HasExtraRelationship
    /\ Cardinality(query.visited) >= 3
    /\ LET extra == relationshipsCache[Cardinality(DOMAIN peopleCache)]
       IN  {extra.personAId, extra.personBId} \subseteq query.visited

\* ------------------------------------------------------------------------
\* What addRelationship returns
\* ------------------------------------------------------------------------
Joins(rel, req) ==
    {rel.personAId, rel.personBId} = {req.personAId, req.personBId}

\* record rel has the requested type between the two people (in either
\* order), or is the reversed pair with the inverse type
StatesRequest(rel, req) ==
    \/ Joins(rel, req) /\ rel.type = req.type
    \/ /\ rel.personAId = req.personBId
       /\ rel.personBId = req.personAId
       /\ rel.type = getInverseType(req.type)

\* C26: addRelationship(A, B, t) returns an already stored record only when
\* that record has the requested type t between A and B; when the only
\* records between A and B have a different type, a new record of type t is
\* created and returned.
C26_ReturnsStoredOnlyForSameType ==
    (Finished("addRelationship") /\ ret.call.rel.personAId \in DOMAIN ret.call.pre.people
                                 /\ ret.call.rel.personBId \in DOMAIN ret.call.pre.people) =>
        LET before == ret.call.pre.rels
            req == ret.call.rel
            between == {r \in DOMAIN before : Joins(before[r], req)}
        IN  /\ ret.id \in DOMAIN before => StatesRequest(before[ret.id], req)
            /\ ( /\ between # {}
                 /\ \A r \in between : ~StatesRequest(before[r], req) ) =>
                   /\ ret.id \notin DOMAIN before
                   /\ ret.id \in DOMAIN relationshipsCache
                   /\ relationshipsCache[ret.id] = req

\* parent(A, B) is the only record and child is requested for A, B: the
\* stored parent record comes back
C26_ParentReturnedForChild ==
    /\ Finished("addRelationship")
    /\ ret.call.rel.type = "child"
    /\ ret.id \in DOMAIN ret.call.pre.rels
    /\ ret.call.pre.rels[ret.id] = [ret.call.rel EXCEPT !.type = "parent"]
    /\ Cardinality(DOMAIN ret.call.pre.rels) = 1
    /\ relationshipsCache = ret.call.pre.rels

\* ------------------------------------------------------------------------
\* Adjacency lists against the relationship store
\* ------------------------------------------------------------------------
\* the entries of person q's list that carry relationship id r
EntriesCarrying(adj, q, r) ==
    {i \in 1..Len(AdjGet(adj, q)) : adj[q][i].relationshipId = r}

\* C28: under serially issued mutations starting from an empty engine, in
\* every quiescent state each stored relationship has exactly two adjacency
\* entries carrying its id, one in the list of each endpoint; every adjacency
\* entry carries the id of a stored relationship and points to a stored
\* person; and only stored people have an adjacency list.
C28_AdjacencyMatchesStore ==
    Quiet =>
        /\ \A r \in DOMAIN relationshipsCache :
               LET rel == relationshipsCache[r]
               IN  /\ Cardinality(EntriesCarrying(adjacencyList, rel.personAId, r)) = 1
                   /\ Cardinality(EntriesCarrying(adjacencyList, rel.personBId, r)) = 1
                   /\ \A q \in DOMAIN adjacencyList :
                          q \notin {rel.personAId, rel.personBId} =>
                              EntriesCarrying(adjacencyList, q, r) = {}
        /\ \A q \in DOMAIN adjacencyList :
               /\ q \in DOMAIN peopleCache
               /\ \A i \in 1..Len(adjacencyList[q]) :
                      /\ adjacencyList[q][i].relationshipId \in DOMAIN relationshipsCache
                      /\ adjacencyList[q][i].personId \in DOMAIN peopleCache

\* a quiescent state after add and delete calls only (nothing imported or
\* reloaded) in which a list holds an entry whose relationship is not stored
C28_StaleEntry ==
    /\ Quiet
    /\ dbPeople = peopleCache
    /\ dbRelationships = relationshipsCache
    /\ \E q \in DOMAIN adjacencyList : \E i \in 1..Len(adjacencyList[q]) :
           /\ adjacencyList[q][i].relationshipId \notin DOMAIN relationshipsCache
           /\ adjacencyList[q][i].personId \notin DOMAIN peopleCache

\* ------------------------------------------------------------------------
\* Shape of a returned path
\* ------------------------------------------------------------------------
\* C29: every path the search returns is well formed: the person chain
\* starts at from and ends at to, has exactly one more element than the type
\* chain, holds no person twice, and each consecutive pair with its type is an
\* adjacency entry of the first person pointing to the second.
C29_PathWellFormed ==
    Found =>
        LET ps == query.result.personIds
            ts == query.result.types
        IN  /\ Len(ps) = Len(ts) + 1
            /\ ps[1] = query.fromId
            /\ ps[Len(ps)] = query.toId
            /\ \A i \in 1..Len(ps), j \in 1..Len(ps) : ps[i] = ps[j] => i = j
            /\ \A i \in 1..Len(ts) :
                   \E k \in 1..Len(AdjGet(adjacencyList, ps[i])) :
                       /\ adjacencyList[ps[i]][k].personId = ps[i + 1]
                       /\ adjacencyList[ps[i]][k].type = ts[i]

\* a path of three edges found on a graph with a cycle or a repeated edge
C29_Witness ==
    /\ Found
    /\ PathLen >= 3
    /\ HasExtraRelationship
    /\ query.result.personIds[1] = query.fromId

\* ------------------------------------------------------------------------
\* addRelationship overlapping deletePerson
\* ------------------------------------------------------------------------
\* addRelationship(A, B, t) has just returned a new record, nothing else is
\* in flight, and A, stored when the call began, was deleted while the call
\* was suspended on its write
AddOutlivedDelete ==
    /\ Finished("addRelationship")
    /\ ret.call.await = "saveRelationship"
    /\ AllIdle
    /\ ret.call.rel.personAId \in DOMAIN ret.call.pre.people
    /\ ret.call.rel.personAId \notin DOMAIN peopleCache

====
